---- MODULE Spec2Model ----
(***************************************************************************)
(* Resilience plane of software-framebuffer.                               *)
(*                                                                         *)
(*  SpecSync        : the frame synchronizer of src/framebuffer.c          *)
(*                    (on_new_sample writer, render_loop reader, start,    *)
(*                    stop).                                               *)
(*  SpecSyncFps     : SpecSync started with any of the -f options.         *)
(*  SpecSyncLive    : SpecSync with the render thread scheduled fairly.    *)
(*  SpecSyncBackend : the copy in src/backend/src/framebuffer.             *)
(*  SpecSyncBackendModes : the copy started in any of its output modes.    *)
(*  SpecTbc         : the A/B selector, watchdog, resume detector,         *)
(*                    supervisor and graph mutator of                      *)
(*                    src/backend/gstreamer/resilient_tbc.c.               *)
(*  SpecTbcLive     : SpecTbc with the main loop scheduled fairly.         *)
(*  SpecTbcLog      : SpecTbc seen through the lines it logs.              *)
(*  SpecTbcSteps    : SpecTbc with teardown and rebuild taken call by      *)
(*                    call.                                                *)
(*  SpecDemux       : what either program does with each demux pad.        *)
(*  SpecGateway     : the offer/answer exchange of                         *)
(*                    src/backend/src/framebuffer/webrtc-gateway.c.        *)
(*                                                                         *)
(* The programs are separate processes; each specification leaves the      *)
(* other programs' variables untouched.                                    *)
(***************************************************************************)
EXTENDS Integers, Sequences, FiniteSets, TLC

VARIABLES
  fb,        \* FrameBuffer struct fields shared between the threads
  rl,        \* render_loop: position and locals of the render thread
  ns,        \* on_new_sample: position of the appsink streaming thread
  fbmain,    \* position of the synchronizer's main thread
  mono,      \* the monotonic clock read by both threads, in ms
  pushes,    \* history: number of gst_app_src_push_buffer calls made
  waits,     \* history: number of completed gst_clock_id_wait calls
  pushes_at_stop, \* history: the value of pushes when framebuffer_stop
             \* cleared running
  app,       \* App struct fields of resilient_tbc.c
  sel,       \* the input-selector element: pads it holds, its active pad,
             \* and (history) the caller that last set the active pad
  next_pad,  \* the pad the selector hands out on the next request (sink_%u)
  timers,    \* GLib timeout sources: ms left until the watchdog is due and
             \* until each one-shot delayed switch is due
  idle_rebuilds, \* rebuild_ingest_chain idle sources queued on the main loop
  mainpc,    \* position of the control (main loop) thread
  probepc,   \* position of the streaming thread inside ingest_probe_cb
  hist       \* history: errors absorbed by the pending rebuild, threads that
             \* have mutated the graph, the kind of node whose error quit the
             \* main loop, a video pad ignored by the demux callback, the
             \* value main returned, the steps the running rebuild has taken,
             \* the calls its teardown has made on pads and elements, the
             \* rebuilds scheduled for the decode chain that exists, and
             \* whether the last ingest error found no decode chain
VARIABLES
  gateway,   \* webrtc-gateway.c: position of the main loop thread and the
             \* number of offer messages read from stdin
  webrtcbin, \* the webrtcbin element: the operations queued on its own
             \* thread and the descriptions it has applied
  signalling \* history: the calls made on webrtcbin, its replies to
             \* create-answer, and the JSON messages written to stdout

VARIABLES
  demux_pads \* history: the source pads the demux of either program has
             \* announced, each with its caps, what on_demux_pad_added
             \* linked it to and whether it reached a decoder

syncvars == <<fb, rl, ns, fbmain, mono, pushes, waits, pushes_at_stop>>
tbcvars  == <<app, sel, next_pad, timers, idle_rebuilds, mainpc, probepc, hist>>
gwvars   == <<gateway, webrtcbin, signalling>>
dmxvars  == <<demux_pads>>

-----------------------------------------------------------------------------
(* Bounds of the synchronizer model *)
MaxSamples    == 3      \* on_new_sample calls explored
MaxFrames     == 4      \* render iterations explored
MaxClockSteps == 4      \* monotonic clock advances explored

(* Program constants of src/framebuffer.c *)
\* DEFAULT_NO_SIGNAL_TIMEOUT is 5000000000 ns; the monotonic clock and the
\* timeout are both carried in ms here (the checker's integers are 32 bit)
DEFAULT_NO_SIGNAL_TIMEOUT_MS == 5000
DEFAULT_FPS               == 25
GST_SECOND                == 1000000000

\* the monotonic clock is sampled on a grid of half a no-signal timeout, so
\* that elapsed times below, equal to and above the timeout all occur
ClockStepMs == DEFAULT_NO_SIGNAL_TIMEOUT_MS \div 2

\* a timestamp or counter that has not been taken yet
Unset == -1

FlowReturns == {"GST_FLOW_OK", "GST_FLOW_FLUSHING", "GST_FLOW_EOS", "GST_FLOW_ERROR"}

\* gst_util_uint64_scale_int(GST_SECOND, 1, fb->fps): integer floor
frame_duration == (GST_SECOND * 1) \div fb.fps

\* stamped_by: who wrote the PTS the output branch sees on the buffer, the
\* render loop or the appsrc it was pushed into
NoBuffer == [kind |-> "none", frame |-> 0, pts |-> 0, dts |-> 0, duration |-> 0,
             stamped_by |-> "none"]

\* create_output_pipeline of src/framebuffer.c: the do-timestamp property of
\* the appsrc; every branch formats the one appsrc_props string
create_output_pipeline(mode) == FALSE

\* the output modes of src/backend/src/framebuffer/framebuffer.c
\* (-s, -v, -r flags and the default)
BackendOutputModes == {"shm", "vp8-rtp", "raw-rtp", "h264-mpegts"}

\* create_output_pipeline of the backend copy: the do-timestamp property of
\* the appsrc in the pipeline string of each mode
create_output_pipeline_backend(mode) ==
  CASE mode = "shm"         -> TRUE
    [] mode = "vp8-rtp"     -> TRUE
    [] mode = "raw-rtp"     -> TRUE
    [] mode = "h264-mpegts" -> FALSE

\* an appsrc with do-timestamp set replaces the timestamps of each buffer
\* pushed into it by the running time at which it arrived
appsrc_stamp(do_timestamp) == IF do_timestamp THEN "appsrc" ELSE "render_loop"

-----------------------------------------------------------------------------
(* framebuffer_new + main up to g_main_loop_run: start is scheduled *)
framebuffer_new ==
  [ current_frame   |-> 0,        \* 0 = NULL, n = payload of the n-th sample
    slot_refs       |-> 0,        \* buffer references the slot owns
    fallback_frame  |-> FALSE,    \* NULL until start_pipelines_idle
    last_input_time |-> 0,
    frame_mutex     |-> "free",
    running         |-> FALSE,
    frames_in       |-> 0,
    frames_out      |-> 0,
    frames_repeated |-> 0,
    in_seq          |-> 0,
    last_pushed_seq |-> 0,
    input_state     |-> "NULL",
    output_state    |-> "NULL",
    fps             |-> DEFAULT_FPS,
    output_mode     |-> "h264-mpegts",  \* CODEC_H264 in CONTAINER_MPEGTS
    do_timestamp    |-> create_output_pipeline("h264-mpegts") ]

render_locals ==
  [ pc             |-> "unborn",
    frame_count    |-> 0,
    buffer_to_push |-> NoBuffer,
    is_repeat      |-> FALSE,
    use_fallback   |-> FALSE,
    current_seq    |-> 0,
    ret            |-> "GST_FLOW_OK",
    seq_log        |-> << >> ]   \* history: 0 for each no-signal fallback
                                 \* chosen, n for each push of sequence
                                 \* number n marked as a non-repeat

InitSyncVars ==
  /\ fb = framebuffer_new
  /\ rl = render_locals
  /\ ns = "idle"
  /\ fbmain = "scheduled"
  /\ mono = ClockStepMs
  /\ pushes = 0
  /\ waits = 0
  /\ pushes_at_stop = Unset

\* frame rates given with -f / --fps: fb->fps = atoi(optarg)
FpsOptions == {24, 25, 30, 60}

(* main, lines 889-891, then as InitSyncVars: the program started with any  *)
(* of the frame rates                                                       *)
InitSyncVarsAnyFps ==
  /\ fb \in {[framebuffer_new EXCEPT !.fps = f] : f \in FpsOptions}
  /\ rl = render_locals
  /\ ns = "idle"
  /\ fbmain = "scheduled"
  /\ mono = ClockStepMs
  /\ pushes = 0
  /\ waits = 0
  /\ pushes_at_stop = Unset

-----------------------------------------------------------------------------
(* start_pipelines_idle: allocate the fallback frame, set running, create   *)
(* the render thread, set both pipelines PLAYING                            *)
start_pipelines_idle ==
  /\ fbmain = "scheduled"
  /\ fb' = [fb EXCEPT !.fallback_frame = TRUE,
                      !.output_state = "PLAYING",
                      !.running = TRUE,
                      !.input_state = "PLAYING"]
  /\ rl' = [rl EXCEPT !.pc = "top"]
  /\ fbmain' = "loop"
  /\ UNCHANGED <<ns, mono, pushes, waits, pushes_at_stop>>

(* framebuffer_stop, first half: running = FALSE, then block in join *)
framebuffer_stop_begin ==
  /\ fbmain = "loop"
  /\ fb' = [fb EXCEPT !.running = FALSE]
  /\ fbmain' = "join"
  /\ pushes_at_stop' = pushes
  /\ UNCHANGED <<rl, ns, mono, pushes, waits>>

g_thread_join_skipped == TRUE

(* framebuffer_stop, line 726: g_thread_join returns once render_loop has   *)
(* returned                                                                 *)
g_thread_join == rl.pc = "exited"

(* framebuffer_stop, lines 725-728: the join returns, whatever the input    *)
(* streaming thread is doing                                                *)
framebuffer_stop_join ==
  /\ fbmain = "join"
  /\ g_thread_join
  /\ fbmain' = "joined"
  /\ UNCHANGED <<fb, rl, ns, mono, pushes, waits, pushes_at_stop>>

(* framebuffer_stop, lines 729-730: input, then output pipeline to NULL *)
framebuffer_stop_null ==
  /\ fbmain = "joined"
  /\ ns = "idle"               \* set_state(NULL) waits for the streaming thread
  /\ fb' = [fb EXCEPT !.input_state = "NULL", !.output_state = "NULL"]
  /\ fbmain' = "stopped"
  /\ UNCHANGED <<rl, ns, mono, pushes, waits, pushes_at_stop>>

-----------------------------------------------------------------------------
unref_prior_skipped(refs) == refs

(* on_new_sample, lines 541-543: gst_buffer_unref of the frame in the slot  *)
unref_prior(refs) == IF fb.current_frame # 0 THEN refs - 1 ELSE refs

(* on_new_sample, lines 539-549: lock, release the prior frame, store the   *)
(* new one                                                                  *)
on_new_sample_store ==
  /\ ns = "idle"
  /\ fb.input_state = "PLAYING"
  /\ fb.frames_in < MaxSamples
  /\ fb.frame_mutex = "free"
  /\ fb' = [fb EXCEPT !.frame_mutex = "writer",
                      !.current_frame = fb.frames_in + 1,
                      !.slot_refs = unref_prior(@) + 1]
  /\ ns' = "locked"
  /\ UNCHANGED <<rl, fbmain, mono, pushes, waits, pushes_at_stop>>

(* on_new_sample, lines 551-555: counters, input time, unlock *)
on_new_sample_count ==
  /\ ns = "locked"
  /\ fb' = [fb EXCEPT !.frames_in = @ + 1,
                      !.in_seq = @ + 1,
                      !.last_input_time = mono,
                      !.frame_mutex = "free"]
  /\ ns' = "idle"
  /\ UNCHANGED <<rl, fbmain, mono, pushes, waits, pushes_at_stop>>

-----------------------------------------------------------------------------
loop_condition_unread == TRUE

(* render_loop, line 602: while (fb->running), read anew in each iteration *)
loop_condition == fb.running

(* render_loop, line 602: the top of an iteration *)
render_loop_top ==
  /\ rl.pc = "top"
  /\ rl' = [rl EXCEPT !.pc = IF loop_condition THEN "read" ELSE "exited"]
  /\ UNCHANGED <<fb, ns, fbmain, mono, pushes, waits, pushes_at_stop>>

signal_timeout ==
  /\ fb.last_input_time > 0
  /\ (mono - fb.last_input_time) > DEFAULT_NO_SIGNAL_TIMEOUT_MS

render_lock_skipped == TRUE

(* render_loop, line 608: g_mutex_lock(&fb->frame_mutex) returns once no    *)
(* writer holds the mutex                                                   *)
render_lock_acquired == fb.frame_mutex = "free"

(* render_loop, lines 603-630: the slot is read under the mutex *)
render_loop_read ==
  /\ rl.pc = "read"
  /\ render_lock_acquired
  /\ rl' = IF fb.current_frame # 0 /\ ~signal_timeout
             THEN [rl EXCEPT !.pc = "push",
                             !.buffer_to_push =
                                [NoBuffer EXCEPT !.kind = "live",
                                                 !.frame = fb.current_frame],
                             !.current_seq = fb.in_seq,
                             !.is_repeat = FALSE,
                             !.use_fallback = FALSE]
             ELSE [rl EXCEPT !.pc = "push",
                             !.buffer_to_push = NoBuffer,
                             !.current_seq = 0,
                             !.is_repeat = TRUE,
                             !.use_fallback = TRUE,
                             !.seq_log = IF fb.current_frame # 0
                                           THEN Append(@, 0) ELSE @]
  /\ UNCHANGED <<fb, ns, fbmain, mono, pushes, waits, pushes_at_stop>>

(* render_loop, lines 655-659: the push results that leave the loop *)
loop_breaks(ret) == ret \in {"GST_FLOW_FLUSHING", "GST_FLOW_EOS"}

frames_out_counted_ok_only(ret) ==
  IF ret = "GST_FLOW_OK" THEN fb.frames_out + 1 ELSE fb.frames_out

(* render_loop, line 663: fb->frames_out++ after every push that did not    *)
(* leave the loop                                                           *)
frames_out_counted(ret) == fb.frames_out + 1

frames_repeated_uncounted(repeat) == fb.frames_repeated

frames_repeated_recounted(repeat) ==
  IF repeat THEN fb.frames_repeated + 1 ELSE 0

(* render_loop, line 664: if (is_repeat) fb->frames_repeated++ *)
frames_repeated_counted(repeat) ==
  IF repeat THEN fb.frames_repeated + 1 ELSE fb.frames_repeated

repeat_detected_fallback_only(is_repeat, current_seq) == is_repeat

(* render_loop, lines 642-645: a live frame is a repeat when the sequence   *)
(* number captured with it is the one recorded at the previous push         *)
repeat_detected(is_repeat, current_seq) ==
  is_repeat \/ current_seq = fb.last_pushed_seq

seq_recorded_never(current_seq) == fb.last_pushed_seq

(* render_loop, line 645: fb->last_pushed_seq = current_seq *)
seq_recorded(current_seq) == current_seq

buffer_pts_from_seq(count) == rl.current_seq * frame_duration

(* render_loop, line 647: pts = frame_count * frame_duration *)
buffer_pts(count) == count * frame_duration

(* render_loop, lines 632-665: choose the fallback copy, repeat detection,  *)
(* stamp, push, break on FLUSHING/EOS, otherwise count                      *)
render_loop_push ==
  /\ rl.pc = "push"
  /\ rl.frame_count < MaxFrames
  /\ \E ret \in FlowReturns :
       LET buf0   == IF rl.use_fallback
                       THEN [NoBuffer EXCEPT !.kind =
                               IF fb.fallback_frame THEN "fallback" ELSE "created"]
                       ELSE rl.buffer_to_push
           repeat == repeat_detected(rl.is_repeat, rl.current_seq)
           logged == IF repeat THEN rl.seq_log
                     ELSE Append(rl.seq_log, rl.current_seq)
           pts    == buffer_pts(rl.frame_count)
           buf    == [buf0 EXCEPT !.pts = pts, !.dts = pts,
                                  !.duration = frame_duration,
                                  !.stamped_by = appsrc_stamp(fb.do_timestamp)]
       IN  /\ pushes' = pushes + 1
           /\ IF loop_breaks(ret)
                THEN /\ fb' = [fb EXCEPT !.last_pushed_seq =
                                            seq_recorded(rl.current_seq)]
                     /\ rl' = [rl EXCEPT !.pc = "exited", !.ret = ret,
                                         !.buffer_to_push = buf,
                                         !.is_repeat = repeat,
                                         !.seq_log = logged]
                ELSE /\ fb' = [fb EXCEPT !.last_pushed_seq =
                                            seq_recorded(rl.current_seq),
                                         !.frames_out = frames_out_counted(ret),
                                         !.frames_repeated =
                                            frames_repeated_counted(repeat)]
                     /\ rl' = [rl EXCEPT !.pc = "wait", !.ret = ret,
                                         !.buffer_to_push = buf,
                                         !.is_repeat = repeat,
                                         !.seq_log = logged,
                                         !.frame_count = @ + 1]
  /\ UNCHANGED <<ns, fbmain, mono, waits, pushes_at_stop>>

(* render_loop, lines 674-678: single-shot wait for the next render tick *)
render_loop_wait ==
  /\ rl.pc = "wait"
  /\ rl' = [rl EXCEPT !.pc = "top"]
  /\ waits' = waits + 1
  /\ UNCHANGED <<fb, ns, fbmain, mono, pushes, pushes_at_stop>>

(* the monotonic clock advances *)
clock_advance ==
  /\ mono < MaxClockSteps * ClockStepMs
  /\ mono' = mono + ClockStepMs
  /\ UNCHANGED <<fb, rl, ns, fbmain, pushes, waits, pushes_at_stop>>

-----------------------------------------------------------------------------
(* The copy of the synchronizer in src/backend/src/framebuffer/framebuffer.c *)
(* differs in start_pipelines_idle, on_new_sample and render_loop: it keeps  *)
(* no last_input_time and no pre-allocated fallback frame, and its render    *)
(* loop has no no-signal test and never leaves on a push result.            *)

(* main of the backend copy with any of its output flags, then as          *)
(* InitSyncVars                                                             *)
InitSyncVarsAnyMode ==
  /\ fb \in {[framebuffer_new EXCEPT
                !.output_mode = m,
                !.do_timestamp = create_output_pipeline_backend(m)] :
                   m \in BackendOutputModes}
  /\ rl = render_locals
  /\ ns = "idle"
  /\ fbmain = "scheduled"
  /\ mono = ClockStepMs
  /\ pushes = 0
  /\ waits = 0
  /\ pushes_at_stop = Unset

(* start_pipelines_idle of the backend copy *)
start_pipelines_idle_backend ==
  /\ fbmain = "scheduled"
  /\ fb' = [fb EXCEPT !.output_state = "PLAYING",
                      !.running = TRUE,
                      !.input_state = "PLAYING"]
  /\ rl' = [rl EXCEPT !.pc = "top"]
  /\ fbmain' = "loop"
  /\ UNCHANGED <<ns, mono, pushes, waits, pushes_at_stop>>

(* on_new_sample of the backend copy, counters and unlock.  The structure   *)
(* has no last_input_time; the field is kept here as the history of when    *)
(* the slot was last written, nothing in this copy reads it                 *)
on_new_sample_count_backend ==
  /\ ns = "locked"
  /\ fb' = [fb EXCEPT !.frames_in = @ + 1,
                      !.in_seq = @ + 1,
                      !.last_input_time = mono,
                      !.frame_mutex = "free"]
  /\ ns' = "idle"
  /\ UNCHANGED <<rl, fbmain, mono, pushes, waits, pushes_at_stop>>

(* render_loop of the backend copy: the slot is read under the mutex *)
render_loop_read_backend ==
  /\ rl.pc = "read"
  /\ fb.frame_mutex = "free"
  /\ rl' = IF fb.current_frame # 0
             THEN [rl EXCEPT !.pc = "push",
                             !.buffer_to_push =
                                [NoBuffer EXCEPT !.kind = "live",
                                                 !.frame = fb.current_frame],
                             !.current_seq = fb.in_seq,
                             !.is_repeat = FALSE,
                             !.use_fallback = FALSE]
             ELSE [rl EXCEPT !.pc = "push",
                             !.buffer_to_push =
                                [NoBuffer EXCEPT !.kind = "created"],
                             !.current_seq = 0,
                             !.is_repeat = TRUE,
                             !.use_fallback = TRUE]
  /\ UNCHANGED <<fb, ns, fbmain, mono, pushes, waits, pushes_at_stop>>

(* render_loop of the backend copy: repeat detection, stamp, push, count *)
render_loop_push_backend ==
  /\ rl.pc = "push"
  /\ rl.frame_count < MaxFrames
  /\ \E ret \in FlowReturns :
       LET repeat == repeat_detected(rl.is_repeat, rl.current_seq)
           logged == IF repeat THEN rl.seq_log
                     ELSE Append(rl.seq_log, rl.current_seq)
           pts    == rl.frame_count * frame_duration
           buf    == [rl.buffer_to_push EXCEPT
                         !.pts = pts, !.dts = pts,
                         !.duration = frame_duration,
                         !.stamped_by = appsrc_stamp(fb.do_timestamp)]
       IN  /\ pushes' = pushes + 1
           /\ fb' = [fb EXCEPT !.last_pushed_seq = rl.current_seq,
                               !.frames_out = @ + 1,
                               !.frames_repeated = IF repeat THEN @ + 1 ELSE @]
           /\ rl' = [rl EXCEPT !.pc = "wait", !.ret = ret,
                               !.buffer_to_push = buf,
                               !.is_repeat = repeat,
                               !.seq_log = logged,
                               !.frame_count = @ + 1]
  /\ UNCHANGED <<ns, fbmain, mono, waits, pushes_at_stop>>

NextSyncBackend ==
  \/ start_pipelines_idle_backend /\ UNCHANGED <<tbcvars, gwvars, dmxvars>>
  \/ framebuffer_stop_begin /\ UNCHANGED <<tbcvars, gwvars, dmxvars>>
  \/ framebuffer_stop_join /\ UNCHANGED <<tbcvars, gwvars, dmxvars>>
  \/ framebuffer_stop_null /\ UNCHANGED <<tbcvars, gwvars, dmxvars>>
  \/ on_new_sample_store /\ UNCHANGED <<tbcvars, gwvars, dmxvars>>
  \/ on_new_sample_count_backend /\ UNCHANGED <<tbcvars, gwvars, dmxvars>>
  \/ render_loop_top /\ UNCHANGED <<tbcvars, gwvars, dmxvars>>
  \/ render_loop_read_backend /\ UNCHANGED <<tbcvars, gwvars, dmxvars>>
  \/ render_loop_push_backend /\ UNCHANGED <<tbcvars, gwvars, dmxvars>>
  \/ render_loop_wait /\ UNCHANGED <<tbcvars, gwvars, dmxvars>>
  \/ clock_advance /\ UNCHANGED <<tbcvars, gwvars, dmxvars>>

NextSync ==
  \/ start_pipelines_idle /\ UNCHANGED <<tbcvars, gwvars, dmxvars>>
  \/ framebuffer_stop_begin /\ UNCHANGED <<tbcvars, gwvars, dmxvars>>
  \/ framebuffer_stop_join /\ UNCHANGED <<tbcvars, gwvars, dmxvars>>
  \/ framebuffer_stop_null /\ UNCHANGED <<tbcvars, gwvars, dmxvars>>
  \/ on_new_sample_store /\ UNCHANGED <<tbcvars, gwvars, dmxvars>>
  \/ on_new_sample_count /\ UNCHANGED <<tbcvars, gwvars, dmxvars>>
  \/ render_loop_top /\ UNCHANGED <<tbcvars, gwvars, dmxvars>>
  \/ render_loop_read /\ UNCHANGED <<tbcvars, gwvars, dmxvars>>
  \/ render_loop_push /\ UNCHANGED <<tbcvars, gwvars, dmxvars>>
  \/ render_loop_wait /\ UNCHANGED <<tbcvars, gwvars, dmxvars>>
  \/ clock_advance /\ UNCHANGED <<tbcvars, gwvars, dmxvars>>


-----------------------------------------------------------------------------
(* Properties of the synchronizer *)

\* C1: while running = TRUE (from start until framebuffer_stop) the render
\* loop has not terminated, whatever a push returned.
C1_OutputNeverStops == fb.running => rl.pc # "exited"

\* C2: frames_out counts render iterations only: with k completed
\* iterations (k waits) frames_out = k and k buffers were pushed; inside an
\* iteration exactly one more buffer has been pushed, and the number of
\* on_new_sample calls plays no part.
C2_OneFramePerTick ==
  /\ fb.frames_out = rl.frame_count
  /\ rl.pc \in {"unborn", "top", "read", "push"}
        => (fb.frames_out = waits /\ pushes = waits)
  /\ rl.pc = "wait" => (fb.frames_out = waits + 1 /\ pushes = waits + 1)
  /\ rl.pc = "exited"
        => /\ fb.frames_out = waits
           /\ pushes = waits + (IF loop_breaks(rl.ret) THEN 1 ELSE 0)

\* C2 witness: two completed iterations, the first pushed the fallback frame
\* before any sample, the second pushed the third sample: three
\* on_new_sample calls fell between two consecutive iterations.
C2_Witness ==
  /\ rl.pc = "top" /\ waits = 2 /\ fb.frames_out = 2
  /\ fb.frames_repeated = 1 /\ fb.last_pushed_seq = 3
  /\ mono = ClockStepMs

-----------------------------------------------------------------------------
(***************************************************************************)
(* resilient_tbc.c: selector, watchdog, resume detector, supervisor         *)
(***************************************************************************)

(* Bounds of the selector model *)
MaxPads   == 2      \* ingest pads requested from the selector
MaxErrors == 2      \* ingest errors arriving while one rebuild is pending

(* Program constants of resilient_tbc.c *)
WATCHDOG_TIMEOUT_MS == 2000
RESUME_THRESHOLD_MS == 100
WATCHDOG_PERIOD_MS  == 500      \* g_timeout_add(500, watchdog_cb, ...)
SWITCH_DELAY_MS     == 500      \* g_timeout_add(500, delayed_switch_to_ingest, ...)

\* the clock is sampled on a grid of one resume threshold, the smallest
\* duration the program compares against
Quantum == RESUME_THRESHOLD_MS

\* The program keeps two timestamps, last_buffer_time_ms and
\* resume_start_time_ms, and only ever tests them against 0 and subtracts
\* them from now_ms().  The model keeps the differences: since_buffer_ms is
\* now_ms() - last_buffer_time_ms and since_resume_ms is
\* now_ms() - resume_start_time_ms, Unset standing for a timestamp of 0.
\* A difference stops growing one quantum above the largest value any
\* comparison in the program can tell apart.
BufferAgeCap == WATCHDOG_TIMEOUT_MS + WATCHDOG_PERIOD_MS + Quantum
ResumeAgeCap == RESUME_THRESHOLD_MS + Quantum
Aged(age, cap) ==
  IF age = Unset THEN Unset
  ELSE IF age + Quantum > cap THEN cap ELSE age + Quantum

NoPad == 0                      \* a NULL GstPad pointer / no active pad

\* the names on_bus_msg compares the source of an error with
IngestNodeNames == {"udpin", "inqueue", "tsparse", "demux", "decoder", "ing_vconv"}
\* the elements of the ingest branch under the names they are created with;
\* a NULL name makes GStreamer number the element after its factory
IngestStatic    == {"udpin", "inqueue", "tsparse", "demux"}
IngestDecode    == {"h264parse%u", "h265parse%u", "vtdec%u", "decodebin%u"}
IngestNormalize == {"ing_vconv", "ing_vscale", "ing_vrate", "ing_caps", "ing_queue"}
IngestElements  == IngestStatic \cup IngestDecode \cup IngestNormalize
CoreNodeNames   == {"sel", "fallback", "encoder", "outsink"}
BusMessages     ==
  [type : {"ERROR"}, src : IngestElements \cup CoreNodeNames]
    \cup [type : {"WARNING"}, src : {"encoder"}]
\* the element a message comes from is in the pipeline
ElementPresent(a, src) ==
  CASE src \in IngestNormalize -> a.ing_chain
    [] src = "h264parse%u"     -> a.h264parse = "h264parse"
    [] src = "h265parse%u"     -> a.h264parse = "h265parse"
    [] src = "vtdec%u"         -> a.vtdec
    [] src = "decodebin%u"     -> a.decodebin = "decodebin"
    [] OTHER                   -> TRUE
DemuxCaps       == {"video/x-h264", "video/x-h265", "video/mpeg", "audio/mpeg"}

(* build_pipeline + main up to g_main_loop_run: the fallback pad is        *)
(* requested and active, no ingest chain, the watchdog timer is installed   *)
build_pipeline ==
  [ fallback_pad         |-> 1,
    ingest_pad           |-> NoPad,
    decodebin            |-> "NULL",     \* "NULL", "vtdec" (alias) or "decodebin"
    h264parse            |-> "NULL",     \* "NULL", "h264parse" or "h265parse"
    vtdec                |-> FALSE,
    ing_chain            |-> FALSE,      \* ing_vconv .. ing_queue present
    ingest_linked        |-> FALSE,
    on_ingest            |-> FALSE,
    rebuilding           |-> FALSE,
    since_buffer_ms      |-> Unset,      \* last_buffer_time_ms = 0
    since_resume_ms      |-> Unset,      \* resume_start_time_ms = 0
    watchdog_id          |-> 1,
    loop_quit            |-> FALSE,
    udpsrc               |-> "PLAYING",  \* state of the UDP receive element
    demux                |-> "attached", \* tsparse and demux are in the
                                         \* pipeline, linked, with the
                                         \* pad-added callback ("removed"
                                         \* while a rebuild replaces them)
    inqueue_flushed      |-> FALSE ]     \* inqueue was flushed and has
                                         \* taken no data since

build_pipeline_active_unset == NoPad

(* build_pipeline, lines 598-600: the fallback pad is requested from the    *)
(* selector and made its active pad                                         *)
build_pipeline_active_pad == build_pipeline.fallback_pad

InitTbcVars ==
  /\ app = build_pipeline
  /\ sel = [pads |-> {build_pipeline.fallback_pad},
            active |-> build_pipeline_active_pad,
            cause |-> "build_pipeline"]
  /\ next_pad = 2
  /\ timers = [watchdog |-> WATCHDOG_PERIOD_MS, switches |-> {}]
  /\ idle_rebuilds = 0
  /\ mainpc = "loop"
  /\ probepc = "idle"
  /\ hist = [absorbed |-> 0, mutated_by |-> {}, fatal_src |-> "none",
             new_source |-> FALSE, exit_code |-> Unset,
             steps |-> << >>, removed |-> << >>,
               chain_rebuilds |-> 0, chainless_error |-> FALSE]

-----------------------------------------------------------------------------
(* switch_to_fallback: the pair of App and selector after the call *)
switch_to_fallback(a, s, reason) ==
  IF a.fallback_pad = NoPad THEN [app |-> a, sel |-> s]
  ELSE IF a.on_ingest
    THEN [app |-> [a EXCEPT !.on_ingest = FALSE, !.since_resume_ms = Unset],
          sel |-> [s EXCEPT !.active = a.fallback_pad, !.cause = reason]]
    ELSE [app |-> a, sel |-> s]

(* switch_to_ingest: the pair of App and selector after the call *)
switch_to_ingest(a, s, caller) ==
  IF a.ingest_pad = NoPad THEN [app |-> a, sel |-> s]
  ELSE IF ~a.on_ingest
    THEN [app |-> [a EXCEPT !.on_ingest = TRUE, !.since_resume_ms = Unset],
          sel |-> [s EXCEPT !.active = a.ingest_pad, !.cause = caller]]
    ELSE [app |-> a, sel |-> s]

(* the main loop dispatches sources only between callbacks and until quit *)
MainLoopIdle == mainpc = "loop" /\ ~app.loop_quit

(* the pipeline is PLAYING and the process alive: streaming threads run *)
Streaming == mainpc \notin {"stopped", "rb_aborted"}

-----------------------------------------------------------------------------
(* delayed_switch_to_ingest: one-shot timer armed by link_ingest_chain *)
delayed_switch_to_ingest ==
  /\ MainLoopIdle
  /\ \E due \in timers.switches :
       /\ due = 0
       /\ LET r == switch_to_ingest(app, sel, "delayed_switch_to_ingest")
          IN  app' = r.app /\ sel' = r.sel
       /\ timers' = [timers EXCEPT !.switches = @ \ {due}]
  /\ UNCHANGED <<next_pad, idle_rebuilds, mainpc, probepc, hist>>

(* ingest_probe_cb, lines 219-229: timestamp the buffer, open the resume    *)
(* window or decide to resume                                               *)
resume_elapsed_late(elapsed) == elapsed > RESUME_THRESHOLD_MS + Quantum

resume_elapsed(elapsed) == elapsed > RESUME_THRESHOLD_MS

ingest_probe_cb_begin ==
  /\ Streaming
  /\ probepc = "idle"
  /\ app.ingest_pad # NoPad
  /\ app.ingest_pad \in sel.pads          \* still linked to the selector
  /\ LET a == [app EXCEPT !.since_buffer_ms = 0]
     IN  IF ~a.on_ingest
           THEN IF a.since_resume_ms = Unset
                  THEN /\ app' = [a EXCEPT !.since_resume_ms = 0]
                       /\ probepc' = "return"
                  ELSE IF resume_elapsed(a.since_resume_ms)
                         THEN app' = a /\ probepc' = "switch"
                         ELSE app' = a /\ probepc' = "return"
           ELSE app' = a /\ probepc' = "return"
  /\ UNCHANGED <<sel, next_pad, timers, idle_rebuilds, mainpc, hist>>

(* ingest_probe_cb, line 230: the call of switch_to_ingest *)
ingest_probe_cb_switch ==
  /\ probepc = "switch"
  /\ LET r == switch_to_ingest(app, sel, "ingest_probe_cb")
     IN  app' = r.app /\ sel' = r.sel
  /\ probepc' = "idle"
  /\ UNCHANGED <<next_pad, timers, idle_rebuilds, mainpc, hist>>

(* ingest_probe_cb, line 234: return GST_PAD_PROBE_OK *)
ingest_probe_cb_return ==
  /\ probepc = "return"
  /\ probepc' = "idle"
  /\ UNCHANGED <<app, sel, next_pad, timers, idle_rebuilds, mainpc, hist>>

(* watchdog_cb, line 244: the no-data test *)
watchdog_expired_late(elapsed) == elapsed > WATCHDOG_TIMEOUT_MS + WATCHDOG_PERIOD_MS

watchdog_expired_early(elapsed) == elapsed >= WATCHDOG_TIMEOUT_MS

watchdog_expired(elapsed) == elapsed > WATCHDOG_TIMEOUT_MS

(* watchdog_cb: periodic timer on the main loop *)
watchdog_cb ==
  /\ MainLoopIdle
  /\ app.watchdog_id # 0
  /\ timers.watchdog = 0
  /\ LET r == IF ~app.on_ingest THEN [app |-> app, sel |-> sel]
              ELSE IF app.since_buffer_ms = Unset THEN [app |-> app, sel |-> sel]
              ELSE IF watchdog_expired(app.since_buffer_ms)
                     THEN switch_to_fallback(app, sel, "watchdog")
                     ELSE [app |-> app, sel |-> sel]
     IN  app' = r.app /\ sel' = r.sel
  /\ timers' = [timers EXCEPT !.watchdog = WATCHDOG_PERIOD_MS]
  /\ UNCHANGED <<next_pad, idle_rebuilds, mainpc, probepc, hist>>

-----------------------------------------------------------------------------
(* link_ingest_chain, called with the App as the caller leaves it: create   *)
(* and add the normalize elements, request the selector pad, attach the     *)
(* probe, arm the watchdog if needed and the one-shot delayed switch.       *)
(* Element factories and pad links are taken to succeed.                    *)
link_ingest_chain(a) ==
  /\ app' = [a EXCEPT !.ing_chain = TRUE,
                      !.ingest_pad = next_pad,
                      !.ingest_linked = TRUE,
                      !.since_buffer_ms = 0,
                      !.watchdog_id = 1]
  /\ sel' = [sel EXCEPT !.pads = @ \cup {next_pad}]
  /\ next_pad' = next_pad + 1
  /\ timers' = [timers EXCEPT
                  !.watchdog = IF a.watchdog_id = 0
                                 THEN WATCHDOG_PERIOD_MS ELSE @,
                  !.switches = @ \cup {SWITCH_DELAY_MS}]

\* g_str_has_prefix(name, "video/")
has_prefix_video(name) == name \in {"video/x-h264", "video/x-h265", "video/mpeg"}

(* on_demux_pad_added: runs on the demux streaming thread *)
on_demux_pad_added ==
  /\ Streaming
  /\ app.demux = "attached"
  /\ \E name \in DemuxCaps :
       IF app.decodebin # "NULL"
         THEN UNCHANGED <<app, sel, next_pad, timers, hist>>
       ELSE IF name = "video/x-h264"
         THEN /\ next_pad <= MaxPads + 1
              /\ link_ingest_chain([app EXCEPT !.h264parse = "h264parse",
                                               !.vtdec = TRUE,
                                               !.decodebin = "vtdec"])
              /\ hist' = [hist EXCEPT !.mutated_by = @ \cup {"worker"},
                                       !.chain_rebuilds = 0,
                                       !.chainless_error = FALSE]
       ELSE IF name = "video/x-h265"
         THEN /\ next_pad <= MaxPads + 1
              /\ link_ingest_chain([app EXCEPT !.h264parse = "h265parse",
                                               !.vtdec = TRUE,
                                               !.decodebin = "vtdec"])
              /\ hist' = [hist EXCEPT !.mutated_by = @ \cup {"worker"},
                                       !.chain_rebuilds = 0,
                                       !.chainless_error = FALSE]
       ELSE IF name = "video/mpeg"
         THEN /\ app' = [app EXCEPT !.decodebin = "decodebin"]
              /\ hist' = [hist EXCEPT !.mutated_by = @ \cup {"worker"},
                                       !.chain_rebuilds = 0,
                                       !.chainless_error = FALSE]
              /\ UNCHANGED <<sel, next_pad, timers>>
       ELSE UNCHANGED <<app, sel, next_pad, timers, hist>>
  /\ UNCHANGED <<idle_rebuilds, mainpc, probepc>>

(* on_demux_pad_added, lines 361-368, seen through the log: a video pad     *)
(* that arrives while a decode chain exists writes "New source detected    *)
(* but chain exists - ignoring" and returns                                 *)
on_demux_pad_added_ignoring ==
  /\ Streaming
  /\ app.demux = "attached"
  /\ app.decodebin # "NULL"
  /\ \E name \in DemuxCaps : has_prefix_video(name)
  /\ ~hist.new_source
  /\ hist' = [hist EXCEPT !.new_source = TRUE]
  /\ UNCHANGED <<app, sel, next_pad, timers, idle_rebuilds, mainpc, probepc>>

(* on_decode_pad_added: runs on the decodebin streaming thread *)
on_decode_pad_added ==
  /\ Streaming
  /\ app.decodebin = "decodebin"
  /\ \E raw \in BOOLEAN :
       IF app.ingest_linked \/ ~raw
         THEN UNCHANGED <<app, sel, next_pad, timers, hist>>
         ELSE /\ next_pad <= MaxPads + 1
              /\ link_ingest_chain(app)
              /\ hist' = [hist EXCEPT !.mutated_by = @ \cup {"worker"}]
  /\ UNCHANGED <<idle_rebuilds, mainpc, probepc>>

-----------------------------------------------------------------------------
(* on_bus_msg, lines 629-632: schedule a rebuild unless one is pending *)
rebuild_wanted_unguarded(a) == a.decodebin # "NULL"

rebuild_wanted_chainless(a) == ~a.rebuilding

rebuild_wanted(a) == a.decodebin # "NULL" /\ ~a.rebuilding

(* on_bus_msg, lines 609-651: the handling of one message; logged tells    *)
(* whether the "ERROR from <src>" line it writes is kept in the history     *)
on_bus_msg_of(msg, logged) ==
  IF msg.type = "ERROR" /\ msg.src \in IngestNodeNames
    THEN /\ hist.absorbed < MaxErrors
         /\ LET r == switch_to_fallback(app, sel, "ingest-error")
            IN  /\ sel' = r.sel
                /\ IF rebuild_wanted(r.app)
                     THEN /\ app' = [r.app EXCEPT !.rebuilding = TRUE]
                          /\ idle_rebuilds' = idle_rebuilds + 1
                     ELSE /\ app' = r.app
                          /\ idle_rebuilds' = idle_rebuilds
         /\ hist' = [hist EXCEPT
                       !.absorbed = IF app.rebuilding THEN @ + 1 ELSE @,
                       !.chain_rebuilds =
                          IF rebuild_wanted(app) THEN @ + 1 ELSE @,
                       !.chainless_error = (app.decodebin = "NULL")]
  ELSE IF msg.type = "ERROR"
    THEN /\ app' = [app EXCEPT !.loop_quit = TRUE]
         /\ hist' = [hist EXCEPT !.fatal_src =
                                   IF ~logged THEN @
                                   ELSE IF msg.src \in IngestElements
                                     THEN "ingest" ELSE "core"]
         /\ UNCHANGED <<sel, idle_rebuilds>>
  ELSE UNCHANGED <<app, sel, idle_rebuilds, hist>>

(* on_bus_msg: bus signal watch on the main loop *)
on_bus_msg ==
  /\ MainLoopIdle
  /\ \E msg \in BusMessages :
       /\ ElementPresent(app, msg.src)
       /\ on_bus_msg_of(msg, FALSE)
  /\ UNCHANGED <<next_pad, timers, mainpc, probepc>>

(* on_bus_msg, seen through the log *)
on_bus_msg_logged ==
  /\ MainLoopIdle
  /\ \E msg \in BusMessages :
       /\ ElementPresent(app, msg.src)
       /\ on_bus_msg_of(msg, TRUE)
  /\ UNCHANGED <<next_pad, timers, mainpc, probepc>>

(* rebuild_ingest_chain, lines 126-132: the idle source is dispatched and   *)
(* forces the selector to fallback                                          *)
rebuild_ingest_chain_begin ==
  /\ MainLoopIdle
  /\ idle_rebuilds > 0
  /\ idle_rebuilds' = idle_rebuilds - 1
  /\ LET r == switch_to_fallback(app, sel, "rebuild")
     IN  app' = r.app /\ sel' = r.sel
  /\ mainpc' = "rb_release"
  /\ UNCHANGED <<next_pad, timers, probepc, hist>>

(* the input-selector when one of its pads is released: the pad leaves the  *)
(* element; if it was the active pad the element is left with none          *)
release_request_pad(s, pad) ==
  [s EXCEPT !.pads = @ \ {pad},
            !.active = IF @ = pad THEN NoPad ELSE @]

(* teardown_ingest_chain, lines 89-99: if there is an ingest pad, unlink    *)
(* it, release it and clear the pointer; logged tells whether the calls     *)
(* are kept in the history                                                  *)
teardown_ingest_chain_release_of(next, logged) ==
  /\ mainpc = "rb_release"
  /\ IF app.ingest_pad # NoPad
       THEN /\ sel' = release_request_pad(sel, app.ingest_pad)
            /\ app' = [app EXCEPT !.ingest_pad = NoPad]
            /\ hist' = [hist EXCEPT
                  !.mutated_by = @ \cup {"main"},
                  !.steps = IF logged THEN << "release_ingest_pad" >> ELSE @,
                  !.removed = IF logged
                                THEN << "ingest_pad:unlink",
                                        "ingest_pad:release" >>
                                ELSE @]
       ELSE /\ hist' = [hist EXCEPT
                  !.steps = IF logged THEN << "release_ingest_pad" >> ELSE @]
            /\ UNCHANGED <<sel, app>>
  /\ mainpc' = next
  /\ UNCHANGED <<next_pad, timers, idle_rebuilds, probepc>>

teardown_ingest_chain_release ==
  teardown_ingest_chain_release_of("rb_remove", FALSE)

(* teardown_ingest_chain, lines 101-119 in one step: remove the normalize   *)
(* and decode elements, clear decodebin and ingest_linked.  When decodebin  *)
(* aliases vtdec it is a dangling pointer by the time line 113 tests it     *)
(* (vtdec was set to NULL at line 109) and is handed to                     *)
(* safe_remove_element: the calls on it fail and return, or the process     *)
(* dies                                                                     *)
teardown_ingest_chain_remove ==
  /\ mainpc = "rb_remove"
  /\ \E outcome \in {"returns", "aborts"} :
       /\ outcome = "aborts" => app.decodebin = "vtdec"
       /\ IF outcome = "aborts"
            THEN /\ app' = [app EXCEPT !.ing_chain = FALSE,
                                       !.vtdec = FALSE,
                                       !.h264parse = "NULL"]
                 /\ mainpc' = "rb_aborted"
            ELSE /\ app' = [app EXCEPT !.ing_chain = FALSE,
                                       !.vtdec = FALSE,
                                       !.h264parse = "NULL",
                                       !.decodebin = "NULL",
                                       !.ingest_linked = FALSE]
                 /\ mainpc' = "rb_restart"
       /\ hist' = [hist EXCEPT
                 !.mutated_by =
                    IF app.ing_chain \/ app.vtdec \/ app.decodebin # "NULL"
                      THEN @ \cup {"main"} ELSE @,
                 !.new_source = FALSE,
                 !.chain_rebuilds = IF outcome = "aborts" THEN @ ELSE 0]
  /\ UNCHANGED <<sel, next_pad, timers, idle_rebuilds, probepc>>

(* rebuild_ingest_chain, lines 137-188 in one step: replace tsparse and     *)
(* demux, clear the rebuild-pending flag                                    *)
rebuild_ingest_chain_restart ==
  /\ mainpc = "rb_restart"
  /\ app' = [app EXCEPT !.rebuilding = FALSE]
  /\ hist' = [hist EXCEPT !.absorbed = 0, !.mutated_by = @ \cup {"main"}]
  /\ mainpc' = "loop"
  /\ UNCHANGED <<sel, next_pad, timers, idle_rebuilds, probepc>>

-----------------------------------------------------------------------------
(* teardown_ingest_chain and rebuild_ingest_chain again, call by call; the  *)
(* history keeps the steps of the running rebuild and the calls its         *)
(* teardown has made                                                        *)

teardown_ingest_chain_release_logged ==
  teardown_ingest_chain_release_of("rb_normalize", TRUE)

(* teardown_ingest_chain, lines 102-106: the order of the                   *)
(* safe_remove_element calls on the normalize elements                      *)
normalize_teardown ==
  << "ing_queue", "ing_caps", "ing_vrate", "ing_vscale", "ing_vconv" >>

(* teardown_ingest_chain, lines 101-106: remove the normalize elements      *)
(* whose pointers are set                                                   *)
teardown_ingest_chain_normalize ==
  /\ mainpc = "rb_normalize"
  /\ app' = [app EXCEPT !.ing_chain = FALSE]
  /\ hist' = [hist EXCEPT
        !.mutated_by = IF app.ing_chain THEN @ \cup {"main"} ELSE @,
        !.removed = IF app.ing_chain THEN @ \o normalize_teardown ELSE @]
  /\ mainpc' = "rb_decode"
  /\ UNCHANGED <<sel, next_pad, timers, idle_rebuilds, probepc>>

(* teardown_ingest_chain, lines 108-110: safe_remove_element on vtdec and   *)
(* then on the parser, each if its pointer is set                           *)
decode_teardown(a) ==
  (IF a.vtdec THEN << "vtdec" >> ELSE << >>)
    \o (IF a.h264parse # "NULL" THEN << a.h264parse >> ELSE << >>)

(* teardown_ingest_chain, lines 108-119: remove the decoder and the parser, *)
(* then decodebin unless it equals vtdec, clear decodebin and               *)
(* ingest_linked.  vtdec has been set to NULL by then, so a decodebin that  *)
(* aliased it is a dangling pointer that passes the test: what              *)
(* gst_element_set_state and gst_bin_remove do with it is undefined, the    *)
(* calls fail and return or the process dies                                *)
teardown_ingest_chain_decode ==
  /\ mainpc = "rb_decode"
  /\ \E outcome \in {"returns", "aborts"} :
       LET dangling == app.decodebin = "vtdec"
           last     == IF app.decodebin = "decodebin" THEN << "decodebin" >>
                       ELSE IF dangling THEN << "vtdec:dangling" >>
                       ELSE << >>
       IN  /\ outcome = "aborts" => dangling
           /\ hist' = [hist EXCEPT
                 !.mutated_by =
                    IF app.vtdec \/ app.decodebin # "NULL"
                      THEN @ \cup {"main"} ELSE @,
                 !.new_source = FALSE,
                 !.chain_rebuilds = IF outcome = "aborts" THEN @ ELSE 0,
                 !.steps = Append(@, "remove_ingest_chain"),
                 !.removed = @ \o decode_teardown(app) \o last]
           /\ IF outcome = "aborts"
                THEN /\ app' = [app EXCEPT !.vtdec = FALSE,
                                           !.h264parse = "NULL"]
                     /\ mainpc' = "rb_aborted"
                ELSE /\ app' = [app EXCEPT !.vtdec = FALSE,
                                           !.h264parse = "NULL",
                                           !.decodebin = "NULL",
                                           !.ingest_linked = FALSE]
                     /\ mainpc' = "rb_pause"
  /\ UNCHANGED <<sel, next_pad, timers, idle_rebuilds, probepc>>

udpsrc_left_playing == "PLAYING"

(* rebuild_ingest_chain, line 140:                                          *)
(* gst_element_set_state(app->udpsrc, GST_STATE_READY)                      *)
udpsrc_paused == "READY"

(* rebuild_ingest_chain, lines 138-140: pause the UDP receive element *)
rebuild_ingest_chain_pause ==
  /\ mainpc = "rb_pause"
  /\ app' = [app EXCEPT !.udpsrc = udpsrc_paused]
  /\ hist' = [hist EXCEPT !.steps = Append(@, "pause_udpsrc"),
                          !.removed = << >>]
  /\ mainpc' = "rb_unlink"
  /\ UNCHANGED <<sel, next_pad, timers, idle_rebuilds, probepc>>

(* rebuild_ingest_chain, lines 142-160: unlink, stop and remove the old     *)
(* tsparse and demux, then flush inqueue                                    *)
rebuild_ingest_chain_remove ==
  /\ mainpc = "rb_unlink"
  /\ app' = [app EXCEPT !.demux = "removed", !.inqueue_flushed = TRUE]
  /\ hist' = [hist EXCEPT
        !.mutated_by = @ \cup {"main"},
        !.steps = @ \o << "remove_tsparse_demux", "flush_inqueue" >>]
  /\ mainpc' = "rb_attach"
  /\ UNCHANGED <<sel, next_pad, timers, idle_rebuilds, probepc>>

(* rebuild_ingest_chain, lines 162-179: create tsparse and demux, connect   *)
(* on_demux_pad_added, add both to the pipeline, link them behind inqueue   *)
(* and bring them to the pipeline's state                                   *)
rebuild_ingest_chain_attach ==
  /\ mainpc = "rb_attach"
  /\ app' = [app EXCEPT !.demux = "attached"]
  /\ hist' = [hist EXCEPT !.steps = Append(@, "attach_tsparse_demux")]
  /\ mainpc' = "rb_resume"
  /\ UNCHANGED <<sel, next_pad, timers, idle_rebuilds, probepc>>

(* rebuild_ingest_chain, line 180: restart the UDP receive element *)
rebuild_ingest_chain_resume ==
  /\ mainpc = "rb_resume"
  /\ app' = [app EXCEPT !.udpsrc = "PLAYING", !.inqueue_flushed = FALSE]
  /\ hist' = [hist EXCEPT !.steps = Append(@, "resume_udpsrc")]
  /\ mainpc' = "rb_clear"
  /\ UNCHANGED <<sel, next_pad, timers, idle_rebuilds, probepc>>

(* rebuild_ingest_chain, lines 185-188: clear the rebuild-pending flag and  *)
(* return G_SOURCE_REMOVE                                                   *)
rebuild_ingest_chain_clear ==
  /\ mainpc = "rb_clear"
  /\ app' = [app EXCEPT !.rebuilding = FALSE]
  /\ hist' = [hist EXCEPT !.absorbed = 0, !.steps = << >>]
  /\ mainpc' = "loop"
  /\ UNCHANGED <<sel, next_pad, timers, idle_rebuilds, probepc>>

(* main, lines 703-713: after g_main_loop_quit the watchdog source is       *)
(* removed, the pipeline set to NULL, the two pad references and the        *)
(* pipeline dropped, and 0 returned; no pad is handed back to the selector  *)
main_stop ==
  /\ mainpc = "loop"
  /\ app.loop_quit
  /\ probepc = "idle"
  /\ mainpc' = "stopped"
  /\ hist' = [hist EXCEPT !.exit_code = 0]
  /\ UNCHANGED <<app, sel, next_pad, timers, idle_rebuilds, probepc>>

(* now_ms() advances; a timeout or idle source that is ready is dispatched  *)
(* before the clock moves on, and callbacks take no time                    *)
clock_tick ==
  /\ MainLoopIdle
  /\ probepc = "idle"
  /\ idle_rebuilds = 0
  /\ timers.watchdog > 0
  /\ \A due \in timers.switches : due > 0
  /\ timers' = [watchdog |-> timers.watchdog - Quantum,
                switches |-> {due - Quantum : due \in timers.switches}]
  /\ app' = [app EXCEPT
               !.since_buffer_ms = Aged(@, BufferAgeCap),
               !.since_resume_ms = Aged(@, ResumeAgeCap)]
  /\ UNCHANGED <<sel, next_pad, idle_rebuilds, mainpc, probepc, hist>>

NextTbc ==
  \/ delayed_switch_to_ingest /\ UNCHANGED <<syncvars, gwvars, dmxvars>>
  \/ ingest_probe_cb_begin /\ UNCHANGED <<syncvars, gwvars, dmxvars>>
  \/ ingest_probe_cb_switch /\ UNCHANGED <<syncvars, gwvars, dmxvars>>
  \/ ingest_probe_cb_return /\ UNCHANGED <<syncvars, gwvars, dmxvars>>
  \/ watchdog_cb /\ UNCHANGED <<syncvars, gwvars, dmxvars>>
  \/ on_demux_pad_added /\ UNCHANGED <<syncvars, gwvars, dmxvars>>
  \/ on_decode_pad_added /\ UNCHANGED <<syncvars, gwvars, dmxvars>>
  \/ on_bus_msg /\ UNCHANGED <<syncvars, gwvars, dmxvars>>
  \/ rebuild_ingest_chain_begin /\ UNCHANGED <<syncvars, gwvars, dmxvars>>
  \/ teardown_ingest_chain_release /\ UNCHANGED <<syncvars, gwvars, dmxvars>>
  \/ teardown_ingest_chain_remove /\ UNCHANGED <<syncvars, gwvars, dmxvars>>
  \/ rebuild_ingest_chain_restart /\ UNCHANGED <<syncvars, gwvars, dmxvars>>
  \/ main_stop /\ UNCHANGED <<syncvars, gwvars, dmxvars>>
  \/ clock_tick /\ UNCHANGED <<syncvars, gwvars, dmxvars>>

-----------------------------------------------------------------------------
(***************************************************************************)
(* webrtc-gateway.c: SDP offer/answer exchange over stdin and stdout        *)
(***************************************************************************)

MaxOffers == 2      \* {"type":"offer"} messages read from stdin

Event(ev, k) == [ev |-> ev, offer |-> k]

(* main up to g_main_loop_run: pipeline created, stdin watched, the ready    *)
(* message written                                                          *)
InitGwVars ==
  /\ gateway = [pc |-> "loop", offers |-> 0]
  /\ webrtcbin = [ops |-> << >>, remote |-> 0, local |-> 0]
  /\ signalling = << Event("msg:ready", 0) >>

(* handle_sdp_offer, lines 207-229: parse the SDP text of the k-th offer;   *)
(* on failure write an error message and return, otherwise emit             *)
(* set-remote-description and give the promise up                           *)
handle_sdp_offer_remote ==
  /\ gateway.pc = "loop"
  /\ gateway.offers < MaxOffers
  /\ LET k == gateway.offers + 1
     IN  \E parsed \in BOOLEAN :
           IF ~parsed
             THEN /\ gateway' = [gateway EXCEPT !.offers = k]
                  /\ signalling' = Append(signalling, Event("msg:error", k))
                  /\ UNCHANGED webrtcbin
             ELSE /\ gateway' = [pc |-> "create_answer", offers |-> k]
                  /\ webrtcbin' = [webrtcbin EXCEPT
                        !.ops = Append(@, Event("set-remote-description", k))]
                  /\ signalling' =
                        Append(signalling, Event("set-remote-description", k))

(* handle_sdp_offer, lines 232-234: emit create-answer with a promise whose *)
(* change function is on_answer_created                                     *)
handle_sdp_offer_create_answer ==
  /\ gateway.pc = "create_answer"
  /\ gateway' = [gateway EXCEPT !.pc = "loop"]
  /\ webrtcbin' = [webrtcbin EXCEPT
        !.ops = Append(@, Event("create-answer", gateway.offers))]
  /\ signalling' = Append(signalling, Event("create-answer", gateway.offers))

(* webrtcbin carries out a queued set-remote-description or                 *)
(* set-local-description; the gateway has interrupted the promise, so it   *)
(* learns neither when nor whether the description was applied              *)
webrtcbin_set_description ==
  /\ webrtcbin.ops # << >>
  /\ LET op == Head(webrtcbin.ops)
     IN  /\ op.ev \in {"set-remote-description", "set-local-description"}
         /\ \E applied \in BOOLEAN :
               webrtcbin' =
                 [ops    |-> Tail(webrtcbin.ops),
                  remote |-> IF applied /\ op.ev = "set-remote-description"
                               THEN op.offer ELSE webrtcbin.remote,
                  local  |-> IF applied /\ op.ev = "set-local-description"
                               THEN op.offer ELSE webrtcbin.local]
  /\ UNCHANGED <<gateway, signalling>>

answer_missing_unchecked(answer) == FALSE

(* on_answer_created, line 123: if (!answer) *)
answer_missing(answer) == ~answer

(* webrtcbin carries out a queued create-answer and replies to the promise: *)
(* on_answer_created, lines 114-144, runs with an answer or with none.  No  *)
(* answer is made without a remote offer.                                   *)
on_answer_created ==
  /\ webrtcbin.ops # << >>
  /\ LET op == Head(webrtcbin.ops)
         k  == op.offer
     IN  /\ op.ev = "create-answer"
         /\ \E answer \in BOOLEAN :
               /\ answer => webrtcbin.remote = k
               /\ LET replied == Append(signalling,
                                   Event(IF answer THEN "reply:answer"
                                                   ELSE "reply:none", k))
                  IN  IF answer_missing(answer)
                        THEN /\ signalling' =
                                  Append(replied, Event("msg:error", k))
                             /\ webrtcbin' =
                                  [webrtcbin EXCEPT !.ops = Tail(@)]
                        ELSE /\ signalling' =
                                  replied \o
                                    << Event("set-local-description", k),
                                       Event("msg:answer", k) >>
                             /\ webrtcbin' =
                                  [webrtcbin EXCEPT !.ops =
                                     Append(Tail(@),
                                            Event("set-local-description", k))]
  /\ UNCHANGED gateway

NextGateway ==
  \/ handle_sdp_offer_remote /\ UNCHANGED <<syncvars, tbcvars, dmxvars>>
  \/ handle_sdp_offer_create_answer /\ UNCHANGED <<syncvars, tbcvars, dmxvars>>
  \/ webrtcbin_set_description /\ UNCHANGED <<syncvars, tbcvars, dmxvars>>
  \/ on_answer_created /\ UNCHANGED <<syncvars, tbcvars, dmxvars>>

-----------------------------------------------------------------------------
(* What on_demux_pad_added does with each source pad of the demux, in       *)
(* src/backend/src/framebuffer/framebuffer.c and in resilient_tbc.c         *)

MaxDemuxPads == 3   \* pads the demux announces

BackendDemuxCaps ==
  {"video/x-h264", "video/x-h265", "video/mpeg", "video/x-vp8", "audio/mpeg"}
MpegVersions == {1, 2, 4}

InitDmxVars == demux_pads = << >>

(* framebuffer.c, is_video_caps, lines 144-152 *)
is_video_caps(name) ==
  name \in {"video/x-h264", "video/x-h265", "video/mpeg", "video/x-vp8",
            "video/x-vp9", "video/x-av1", "video/x-raw"}

(* framebuffer.c, on_demux_pad_added, lines 198-215: the explicit decoder  *)
(* chosen for the caps, "NULL" when there is none                           *)
decoder_for(name, mpegversion) ==
  CASE name = "video/mpeg" /\ mpegversion = 2 -> "avdec_mpeg2video"
    [] name = "video/mpeg" /\ mpegversion = 4 -> "avdec_mpeg4"
    [] name = "video/x-h264"                  -> "avdec_h264"
    [] name = "video/x-h265"                  -> "avdec_h265"
    [] OTHER                                  -> "NULL"

(* framebuffer.c, on_demux_pad_added, line 257 *)
fakesink_wanted(handled, name) == ~handled /\ ~is_video_caps(name)

(* framebuffer.c, on_demux_pad_added, lines 180-262, with                  *)
(* link_pad_to_fakesink, lines 157-174; the decoder factory and the two    *)
(* pad links succeed or fail                                                *)
on_demux_pad_added_backend ==
  /\ Len(demux_pads) < MaxDemuxPads
  /\ \E name \in BackendDemuxCaps, mpegversion \in MpegVersions,
        made \in BOOLEAN, ret1 \in BOOLEAN, ret2 \in BOOLEAN :
       LET decoder == IF is_video_caps(name) /\ made
                        THEN decoder_for(name, mpegversion) ELSE "NULL"
           handled == decoder # "NULL" /\ ret1 /\ ret2
           peer    == IF decoder # "NULL" /\ ret1 THEN decoder
                      ELSE IF fakesink_wanted(handled, name) THEN "fakesink"
                      ELSE "none"
       IN  demux_pads' = Append(demux_pads,
                                [program |-> "framebuffer", caps |-> name,
                                 handled |-> handled, peer |-> peer])

(* resilient_tbc.c, on_demux_pad_added, lines 351-458, as far as the demux *)
(* pad goes: ignored while a decode chain exists, linked to a parser or to *)
(* decodebin when it is video, otherwise nothing is done with it           *)
on_demux_pad_added_endpoint ==
  /\ Len(demux_pads) < MaxDemuxPads
  /\ \E name \in DemuxCaps, chain_exists \in BOOLEAN, link_ok \in BOOLEAN :
       LET peer == IF chain_exists \/ ~link_ok THEN "none"
                   ELSE IF name = "video/x-h264" THEN "h264parse"
                   ELSE IF name = "video/x-h265" THEN "h265parse"
                   ELSE IF has_prefix_video(name) THEN "decodebin"
                   ELSE "none"
       IN  demux_pads' = Append(demux_pads,
                                [program |-> "resilient_tbc", caps |-> name,
                                 handled |-> peer # "none", peer |-> peer])

NextDemux ==
  \/ on_demux_pad_added_backend /\ UNCHANGED <<syncvars, tbcvars, gwvars>>
  \/ on_demux_pad_added_endpoint /\ UNCHANGED <<syncvars, tbcvars, gwvars>>

-----------------------------------------------------------------------------
Init == InitSyncVars /\ InitTbcVars /\ InitGwVars /\ InitDmxVars

SpecDemux == Init /\ [][NextDemux]_<<syncvars, tbcvars, gwvars, dmxvars>>

SpecGateway == Init /\ [][NextGateway]_<<syncvars, tbcvars, gwvars, dmxvars>>

SpecSync == Init /\ [][NextSync]_<<syncvars, tbcvars, gwvars, dmxvars>>

SpecSyncBackend == Init /\ [][NextSyncBackend]_<<syncvars, tbcvars, gwvars, dmxvars>>

\* the backend copy of the synchronizer started in any output mode
InitAnyMode ==
  InitSyncVarsAnyMode /\ InitTbcVars /\ InitGwVars /\ InitDmxVars

SpecSyncBackendModes == InitAnyMode /\ [][NextSyncBackend]_<<syncvars, tbcvars, gwvars, dmxvars>>

\* a thread that can run does: the render thread takes its next step, an
\* appsink callback that holds the mutex finishes, and g_thread_join returns
\* once the render thread has ended
RenderThreadStep ==
  render_loop_top \/ render_loop_read \/ render_loop_push \/ render_loop_wait

SpecSyncLive ==
  /\ SpecSync
  /\ WF_syncvars(RenderThreadStep)
  /\ WF_syncvars(on_new_sample_count)
  /\ WF_syncvars(framebuffer_stop_join)
  /\ WF_syncvars(framebuffer_stop_null)

\* the synchronizer of src/framebuffer.c started with any --fps value
InitAnyFps == InitSyncVarsAnyFps /\ InitTbcVars /\ InitGwVars /\ InitDmxVars

SpecSyncFps == InitAnyFps /\ [][NextSync]_<<syncvars, tbcvars, gwvars, dmxvars>>

SpecTbc == Init /\ [][NextTbc]_<<syncvars, tbcvars, gwvars, dmxvars>>

\* the same program with two of the log lines it writes recorded: the
\* source of a fatal error and the video pad the demux callback ignores
NextTbcLog ==
  \/ NextTbc
  \/ on_bus_msg_logged /\ UNCHANGED <<syncvars, gwvars, dmxvars>>
  \/ on_demux_pad_added_ignoring /\ UNCHANGED <<syncvars, gwvars, dmxvars>>

SpecTbcLog == Init /\ [][NextTbcLog]_<<syncvars, tbcvars, gwvars, dmxvars>>

\* the same program with teardown_ingest_chain and rebuild_ingest_chain
\* taken call by call
NextTbcSteps ==
  \/ delayed_switch_to_ingest /\ UNCHANGED <<syncvars, gwvars, dmxvars>>
  \/ ingest_probe_cb_begin /\ UNCHANGED <<syncvars, gwvars, dmxvars>>
  \/ ingest_probe_cb_switch /\ UNCHANGED <<syncvars, gwvars, dmxvars>>
  \/ ingest_probe_cb_return /\ UNCHANGED <<syncvars, gwvars, dmxvars>>
  \/ watchdog_cb /\ UNCHANGED <<syncvars, gwvars, dmxvars>>
  \/ on_demux_pad_added /\ UNCHANGED <<syncvars, gwvars, dmxvars>>
  \/ on_decode_pad_added /\ UNCHANGED <<syncvars, gwvars, dmxvars>>
  \/ on_bus_msg /\ UNCHANGED <<syncvars, gwvars, dmxvars>>
  \/ rebuild_ingest_chain_begin /\ UNCHANGED <<syncvars, gwvars, dmxvars>>
  \/ teardown_ingest_chain_release_logged /\ UNCHANGED <<syncvars, gwvars, dmxvars>>
  \/ teardown_ingest_chain_normalize /\ UNCHANGED <<syncvars, gwvars, dmxvars>>
  \/ teardown_ingest_chain_decode /\ UNCHANGED <<syncvars, gwvars, dmxvars>>
  \/ rebuild_ingest_chain_pause /\ UNCHANGED <<syncvars, gwvars, dmxvars>>
  \/ rebuild_ingest_chain_remove /\ UNCHANGED <<syncvars, gwvars, dmxvars>>
  \/ rebuild_ingest_chain_attach /\ UNCHANGED <<syncvars, gwvars, dmxvars>>
  \/ rebuild_ingest_chain_resume /\ UNCHANGED <<syncvars, gwvars, dmxvars>>
  \/ rebuild_ingest_chain_clear /\ UNCHANGED <<syncvars, gwvars, dmxvars>>
  \/ main_stop /\ UNCHANGED <<syncvars, gwvars, dmxvars>>
  \/ clock_tick /\ UNCHANGED <<syncvars, gwvars, dmxvars>>

SpecTbcSteps == Init /\ [][NextTbcSteps]_<<syncvars, tbcvars, gwvars, dmxvars>>

\* what the GLib main loop does on its own: it dispatches a timeout or idle
\* source that is ready and runs a callback it has entered to its end
MainLoopStep ==
  \/ delayed_switch_to_ingest
  \/ watchdog_cb
  \/ rebuild_ingest_chain_begin
  \/ teardown_ingest_chain_release
  \/ teardown_ingest_chain_remove
  \/ rebuild_ingest_chain_restart

\* a streaming thread that has entered ingest_probe_cb leaves it
ProbeStep == ingest_probe_cb_switch \/ ingest_probe_cb_return

\* the program under its scheduling: ready sources are dispatched, entered
\* callbacks return, time passes, and (the case of a live sender) buffers
\* keep arriving at the ingest pad whenever one is linked
SpecTbcLive ==
  /\ SpecTbc
  /\ WF_tbcvars(MainLoopStep)
  /\ WF_tbcvars(ProbeStep)
  /\ SF_tbcvars(clock_tick)
  /\ SF_tbcvars(ingest_probe_cb_begin)

-----------------------------------------------------------------------------
(* Properties of the selector, watchdog and supervisor *)

\* C3: while the selector is on ingest, the time since the last ingest
\* buffer passed the probe (or since the chain was linked, before any buffer)
\* never exceeds watchdog_timeout plus one watchdog poll period: the
\* watchdog has forced fallback by then.
C3_WatchdogForcesFallback ==
  app.on_ingest =>
    /\ app.since_buffer_ms # Unset
    /\ app.since_buffer_ms <= WATCHDOG_TIMEOUT_MS + WATCHDOG_PERIOD_MS

\* C3 witness: the watchdog has just fired, found the full timeout plus one
\* poll period elapsed on a linked ingest pad, and switched to fallback.
C3_Witness ==
  /\ ~app.on_ingest /\ sel.cause = "watchdog" /\ sel.active = app.fallback_pad
  /\ app.ingest_pad # NoPad
  /\ app.since_buffer_ms = WATCHDOG_TIMEOUT_MS + WATCHDOG_PERIOD_MS
  /\ timers.watchdog = WATCHDOG_PERIOD_MS

\* the streaming thread enters ingest_probe_cb with a buffer
ProbeSeesBuffer == probepc = "idle" /\ probepc' # "idle"

C5_IngestOnlyAfterSustainedFlow ==
  [][(~app.on_ingest /\ app'.on_ingest)
        => (/\ app.since_resume_ms # Unset
            /\ app.since_resume_ms >= RESUME_THRESHOLD_MS)]_tbcvars

\* C6: on fallback, a buffer that arrives after a silent gap longer than the
\* resume threshold does not make the probe switch to ingest.
C6_GapRestartsWindow ==
  [][(/\ ProbeSeesBuffer
      /\ ~app.on_ingest
      /\ app.since_resume_ms # Unset
      /\ app.since_buffer_ms > RESUME_THRESHOLD_MS)
        => probepc' # "switch"]_tbcvars

\* C7: the selector's active pad is always one of the pads it holds.
C7_ActivePadHeld == sel.active \in sel.pads

\* C8: a step that releases a pad from the selector starts from a state in
\* which the fallback pad is the active one.
C8_ReleaseOnlyOnFallback ==
  [][(sel'.pads # sel.pads /\ sel'.pads \subseteq sel.pads)
        => sel.active = app.fallback_pad]_tbcvars

\* the positions of the main thread inside rebuild_ingest_chain
RebuildPcs ==
  {"rb_release", "rb_remove", "rb_restart", "rb_normalize", "rb_decode",
   "rb_pause", "rb_unlink", "rb_attach", "rb_resume", "rb_clear",
   "rb_aborted"}

RebuildRunning == IF mainpc \in RebuildPcs THEN 1 ELSE 0

\* C9: at most one rebuild_ingest_chain is queued or running, and exactly
\* one is while the rebuild-pending flag is set.
C9_SingleRebuild ==
  /\ idle_rebuilds + RebuildRunning <= 1
  /\ app.rebuilding <=> (idle_rebuilds + RebuildRunning = 1)

\* C9 witness: two further ingest errors arrived while a rebuild was pending
\* and exactly one rebuild is queued.
C9_Witness ==
  /\ hist.absorbed >= 2 /\ app.rebuilding /\ idle_rebuilds = 1 /\ mainpc = "loop"

\* C10: no media worker thread has mutated the graph.
C10_MutationsOnMainThread == "worker" \notin hist.mutated_by

\* C11: an error message quits the main loop only if it comes from a node
\* outside the ingest branch: no error from an ingest element is fatal.
C11_IngestErrorsNotFatal == hist.fatal_src # "ingest"

\* C12: a process that exits after a fatal error (the only caller of
\* g_main_loop_quit is the fatal branch of on_bus_msg) returns a non-zero
\* code.
C12_FatalExitNonZero ==
  (mainpc = "stopped" /\ app.loop_quit) => hist.exit_code # 0

\* C14: the step in which the demux callback meets a video pad while a
\* decode chain exists ends with the rebuild-pending flag set and one
\* rebuild_ingest_chain queued or running.
C14_NewSourceRequestsRebuild ==
  [][(~hist.new_source /\ hist'.new_source)
        => (/\ app'.rebuilding
            /\ idle_rebuilds' > 0 \/ mainpc' \in RebuildPcs)
    ]_tbcvars

\* selector sink pads requested (sink_0 .. ) and handed back so far
pads_acquired == next_pad - 1
pads_released == pads_acquired - Cardinality(sel.pads)

\* C15: once the process has exited, every selector pad that was requested
\* has been released.
C15_PadsReleasedAtExit ==
  mainpc = "stopped" => pads_released = pads_acquired

\* a rebuild has run to its end and a decode chain is attached again
RebuiltAndLinked ==
  /\ "main" \in hist.mutated_by
  /\ mainpc = "loop" /\ ~app.rebuilding
  /\ app.ingest_pad # NoPad /\ app.ingest_pad \in sel.pads

\* C13: after a rebuild, once a decode chain is attached again and buffers
\* flow, the selector's active pad becomes the ingest pad, unless a further
\* error starts another rebuild or quits the main loop first.
C13_ReturnsToIngestAfterRebuild ==
  RebuiltAndLinked ~>
    (sel.active = app.ingest_pad \/ app.rebuilding \/ app.loop_quit)

-----------------------------------------------------------------------------
(* Further properties of the synchronizer *)

\* C16: a render iteration reads the slot only while no on_new_sample call
\* is inside its update, so payload, sequence, caps and last_input_time all
\* come from completed calls, and the frame and the sequence number it
\* captures were written by the same call (the n-th call stores frame n and
\* makes in_seq n).
C16_SlotAtomicity ==
  [][(rl.pc = "read" /\ rl'.pc = "push")
        => (/\ ns = "idle"
            /\ fb.current_frame = fb.in_seq
            /\ rl'.buffer_to_push.kind = "live"
                  => rl'.buffer_to_push.frame = rl'.current_seq)]_syncvars

\* C16 witness: the second iteration captured frame 2 with sequence 2 and
\* holds it while the writer is inside its third update (frame 3 stored,
\* in_seq still 2).
C16_Witness ==
  /\ rl.pc = "push" /\ waits = 1
  /\ rl.buffer_to_push.kind = "live" /\ rl.buffer_to_push.frame = 2
  /\ rl.current_seq = 2
  /\ ns = "locked" /\ fb.current_frame = 3 /\ fb.in_seq = 2

\* C17: no step decreases frames_in, frames_out, frames_repeated or in_seq.
C17_CountersMonotonic ==
  [][/\ fb'.frames_in >= fb.frames_in
     /\ fb'.frames_out >= fb.frames_out
     /\ fb'.frames_repeated >= fb.frames_repeated
     /\ fb'.in_seq >= fb.in_seq]_syncvars

\* C17 witness: the synchronizer was started, took samples, pushed fresh
\* and repeated frames and was stopped; every counter has moved.
C17_Witness ==
  /\ fbmain = "stopped"
  /\ fb.frames_in >= 2 /\ fb.in_seq >= 2
  /\ fb.frames_out >= 3 /\ fb.frames_repeated >= 1
  /\ fb.frames_repeated < fb.frames_out

\* C18: frames_out >= frames_repeated in every reachable state.
C18_RepeatedWithinOut == fb.frames_out >= fb.frames_repeated

\* C18 witness: the tight case, every frame pushed so far was a repeat and
\* the last push returned an error.
C18_Witness ==
  /\ fb.frames_out = 3 /\ fb.frames_repeated = 3
  /\ rl.ret = "GST_FLOW_ERROR" /\ fb.frames_in >= 1

\* C19: a render iteration selects the live frame exactly when a current
\* frame exists and less than the no-signal timeout has passed since the
\* last input; otherwise it selects the fallback frame.
C19_LiveIffFresh ==
  [][(rl.pc = "read" /\ rl'.pc = "push")
        => (rl'.buffer_to_push.kind = "live"
              <=> (/\ fb.current_frame # 0
                   /\ (mono - fb.last_input_time) < DEFAULT_NO_SIGNAL_TIMEOUT_MS))
    ]_syncvars

\* C20: the buffer of push number n (from 0) carries PTS = DTS =
\* n * frame_duration and duration = frame_duration, whatever its kind; the
\* frame duration being positive, each pushed PTS exceeds the one before.
C20_PtsIsFrameIndex ==
  [][pushes' = pushes + 1
        => (/\ rl'.buffer_to_push.kind \in {"live", "fallback", "created"}
            /\ rl'.buffer_to_push.pts = pushes * frame_duration
            /\ rl'.buffer_to_push.dts = rl'.buffer_to_push.pts
            /\ rl'.buffer_to_push.duration = frame_duration
            /\ frame_duration > 0)
    ]_syncvars

\* C20 witness: the fourth push stamped a repeated live frame, after a
\* fallback frame and fresh live frames.
C20_Witness ==
  /\ pushes = 4 /\ rl.pc = "wait"
  /\ rl.buffer_to_push.kind = "live" /\ rl.is_repeat
  /\ rl.buffer_to_push.pts = 3 * frame_duration
  /\ fb.frames_repeated = 2 /\ fb.frames_in >= 2

\* C21: the buffer of push number n carries PTS = n * frame_duration with
\* frame_duration = floor(10^9 / fps), and that PTS is within 1 ns of
\* n * 10^9 / fps.  The deviation n * 10^9 / fps - PTS, multiplied by fps, is
\* n * (10^9 - frame_duration * fps); it is compared with 1 ns * fps.
C21_PtsWithinOneNs ==
  [][pushes' = pushes + 1
        => (/\ frame_duration = GST_SECOND \div fb.fps
            /\ rl'.buffer_to_push.pts = pushes * frame_duration
            /\ pushes * (GST_SECOND - frame_duration * fb.fps) <= fb.fps)
    ]_syncvars

\* C22: in every output mode the appsrc has do-timestamp off, and the PTS
\* the output branch sees on a pushed buffer is the one the render loop
\* wrote.
C22_NoAutoTimestamp ==
  [][pushes' = pushes + 1
        => (/\ ~fb.do_timestamp
            /\ rl'.buffer_to_push.stamped_by = "render_loop")]_syncvars

\* C23: once framebuffer_stop has cleared running, the render thread pushes
\* at most one more buffer, the one of the iteration it was in, finds
\* running clear at the top of the loop and ends, and the join returns.
\* (An iteration the frame bound of the model would cut short is left out.)
C23_StopEndsRenderLoop ==
  /\ [](pushes_at_stop # Unset => pushes <= pushes_at_stop + 1)
  /\ [][(rl.pc = "top" /\ rl'.pc # "top" /\ ~fb.running)
          => rl'.pc = "exited"]_syncvars
  /\ (fbmain = "join" /\ rl.frame_count < MaxFrames)
        ~> (rl.pc = "exited" /\ fbmain = "stopped")

\* C23 witness: running was cleared while an iteration was in progress; that
\* iteration pushed its buffer, the thread ended at the top of the loop and
\* the join returned.
C23_Witness ==
  /\ fbmain = "stopped" /\ rl.pc = "exited" /\ ~fb.running
  /\ pushes = pushes_at_stop + 1 /\ waits = pushes
  /\ rl.ret = "GST_FLOW_OK"

\* C24: while frames_in = 0 every buffer the render loop pushes is the
\* fallback frame and is flagged a repeat, and frames_repeated = frames_out.
C24_FallbackOnlyBeforeInput ==
  /\ [](fb.frames_in = 0 => fb.frames_repeated = fb.frames_out)
  /\ [][(pushes' = pushes + 1 /\ fb.frames_in = 0)
          => (/\ rl'.buffer_to_push.kind = "fallback"
              /\ rl'.buffer_to_push.frame = 0
              /\ rl'.is_repeat)]_syncvars

\* C24 witness: three fallback frames have been pushed and counted, and the
\* first sample is being stored but on_new_sample has not counted it yet.
C24_Witness ==
  /\ fb.frames_in = 0 /\ ns = "locked" /\ fb.current_frame = 1
  /\ fb.frames_out = 3 /\ fb.frames_repeated = 3
  /\ rl.pc = "wait" /\ rl.buffer_to_push.kind = "fallback"

\* C25: as long as no ingest pad has ever been requested from the selector
\* (no ingest chain has been linked), the active pad is the fallback pad and
\* the App records fallback.
C25_FallbackUntilIngestLinked ==
  pads_acquired = 1 =>
    (/\ sel.active = app.fallback_pad
     /\ sel.pads = {app.fallback_pad}
     /\ ~app.on_ingest /\ app.ingest_pad = NoPad)

\* C25 witness: no ingest chain was ever linked, yet a decodebin was created
\* for an MPEG video pad, an ingest error had it rebuilt, a second one was
\* created and the watchdog has polled; the selector is still on fallback.
C25_Witness ==
  /\ pads_acquired = 1 /\ sel.active = app.fallback_pad
  /\ "main" \in hist.mutated_by /\ app.decodebin = "decodebin"
  /\ mainpc = "loop" /\ ~app.rebuilding
  /\ timers.watchdog = 0

\* position of the first occurrence of an event in the history, 0 if none
RECURSIVE FirstAt(_, _)
FirstAt(e, i) ==
  IF i > Len(signalling) THEN 0
  ELSE IF signalling[i] = e THEN i ELSE FirstAt(e, i + 1)

Occurred(ev, k) == FirstAt(Event(ev, k), 1) # 0
Before(ev1, ev2, k) ==
  /\ Occurred(ev1, k)
  /\ FirstAt(Event(ev1, k), 1) < FirstAt(Event(ev2, k), 1)

\* C26: for every offer k, create-answer is emitted only after
\* set-remote-description was emitted for k; the answer message is written
\* only after webrtcbin replied with an answer and set-local-description was
\* emitted with it; and when webrtcbin replies without an answer an error
\* message is written for k and no answer message.
C26_OfferAnswerOrder ==
  \A k \in 1..MaxOffers :
    /\ Occurred("create-answer", k)
          => Before("set-remote-description", "create-answer", k)
    /\ Occurred("msg:answer", k)
          => /\ Before("create-answer", "reply:answer", k)
             /\ Before("reply:answer", "set-local-description", k)
             /\ Before("set-local-description", "msg:answer", k)
    /\ Occurred("reply:none", k)
          => /\ Before("reply:none", "msg:error", k)
             /\ ~Occurred("msg:answer", k)
             /\ ~Occurred("set-local-description", k)

\* C26 witness: the first offer was answered and webrtcbin has applied the
\* answer as its local description; the answer to the second offer could
\* not be created and an error was written instead.
C26_Witness ==
  /\ Occurred("msg:answer", 1) /\ webrtcbin.local = 1
  /\ Occurred("reply:none", 2) /\ Occurred("msg:error", 2)
  /\ webrtcbin.ops = << >> /\ gateway.pc = "loop"

\* the steps of one run of rebuild_ingest_chain after the selector was
\* forced to fallback, in the order claimed
RebuildOrder ==
  << "release_ingest_pad", "remove_ingest_chain", "pause_udpsrc",
     "remove_tsparse_demux", "flush_inqueue", "attach_tsparse_demux",
     "resume_udpsrc" >>

\* C27: a run of rebuild_ingest_chain first calls switch_to_fallback, which
\* leaves the App on fallback with the fallback pad active; the steps it
\* has taken since are always an initial part of: ingest pad released,
\* ingest chain removed, UDP receive paused, old tsparse and demux removed,
\* inqueue flushed, new tsparse and demux attached, UDP receive resumed; the
\* rebuild-pending flag is cleared after all of them, by the step that
\* returns to the main loop.  UDP receive is not playing while no demux
\* with the pad-added callback is attached, and inqueue is flushed while
\* UDP receive is paused and no demux is attached.
C27_RebuildOrder ==
  /\ [](/\ Len(hist.steps) <= Len(RebuildOrder)
        /\ hist.steps = SubSeq(RebuildOrder, 1, Len(hist.steps))
        /\ app.demux # "attached" => app.udpsrc # "PLAYING"
        /\ app.inqueue_flushed
              => (app.udpsrc = "READY" /\ mainpc \in {"rb_attach", "rb_resume"})
        /\ mainpc \in (RebuildPcs \ {"rb_aborted"}) => app.rebuilding)
  /\ [][/\ (mainpc = "loop" /\ mainpc' = "rb_release")
             => (~app'.on_ingest /\ sel'.active = app'.fallback_pad)
        /\ (app.rebuilding /\ ~app'.rebuilding)
             => (hist.steps = RebuildOrder /\ mainpc' = "loop")]_tbcvars

\* C27 witness: a rebuild that found the selector on ingest has forced it
\* to fallback, released the ingest pad, removed the chain, replaced
\* tsparse and demux and resumed UDP receive; only the flag is still set.
C27_Witness ==
  /\ mainpc = "rb_clear" /\ app.rebuilding
  /\ hist.steps = RebuildOrder
  /\ sel.cause = "rebuild" /\ sel.active = app.fallback_pad
  /\ app.udpsrc = "PLAYING" /\ app.demux = "attached"
  /\ app.ingest_pad = NoPad /\ app.decodebin = "NULL"

\* how far downstream a teardown call acts: the parser or decodebin is fed
\* by the demux, the decoder by the parser, the normalize elements run from
\* ing_vconv to ing_queue, and the selector's ingest pad ends the branch
\* (it is unlinked, then released)
DownstreamRank(call) ==
  CASE call \in {"h264parse", "h265parse", "decodebin"} -> 1
    [] call = "vtdec"              -> 2
    [] call = "ing_vconv"          -> 3
    [] call = "ing_vscale"         -> 4
    [] call = "ing_vrate"          -> 5
    [] call = "ing_caps"           -> 6
    [] call = "ing_queue"          -> 7
    [] call = "ingest_pad:release" -> 8
    [] call = "ingest_pad:unlink"  -> 9

\* the calls of the running teardown that act on something in the graph
RemovedFromGraph == SelectSeq(hist.removed, LAMBDA c : c # "vtdec:dangling")

TeardownOrderOK ==
  \A i, j \in 1..Len(RemovedFromGraph) :
    i < j => DownstreamRank(RemovedFromGraph[i]) > DownstreamRank(RemovedFromGraph[j])

\* the step that removes the decode elements finds no normalize element,
\* which would be downstream of them, in the graph
TeardownGraphOK ==
  [][(mainpc = "rb_decode" /\ mainpc' # "rb_decode"
        /\ (app.vtdec \/ app.decodebin # "NULL"))
     => ~app.ing_chain]_tbcvars

\* C28: the calls of one teardown_ingest_chain come in reverse dependency
\* order (ingest pad unlinked, then released; ing_queue, ing_caps,
\* ing_vrate, ing_vscale, ing_vconv; decoder, then parser or decodebin), and
\* no element is removed while something downstream of it is still in the
\* graph: the decode elements go only when no normalize element is left.
C28_TeardownReverseOrder == []TeardownOrderOK /\ TeardownGraphOK

\* C29: the step that completes a rebuild (rebuilding goes from TRUE to
\* FALSE) leaves no decode chain and no ingest pad recorded (decodebin,
\* vtdec, h264parse and ingest_pad unset, ingest_linked FALSE) and the
\* selector on the fallback pad, so that the next video pad of the demux
\* builds a fresh decode chain.
C29_CleanAfterRebuild ==
  [][(app.rebuilding /\ ~app'.rebuilding)
     => /\ app'.decodebin = "NULL"
        /\ ~app'.vtdec
        /\ app'.h264parse = "NULL"
        /\ app'.ingest_pad = NoPad
        /\ ~app'.ingest_linked
        /\ sel'.active = app'.fallback_pad
        /\ ~app'.on_ingest]_tbcvars

\* C30: an ingest error handled while no decode chain exists schedules no
\* rebuild and leaves the selector on fallback, and nothing is scheduled
\* until a chain is built; a rebuild is scheduled only by the bus handler,
\* for a decode chain that exists and has had none scheduled, with the
\* fallback forced, so each chain is followed by at most one rebuild; a
\* rebuild runs only as the dispatch of one scheduled idle source.
C30_OneRebuildPerChain ==
  /\ [](/\ hist.chain_rebuilds <= 1
        /\ hist.chainless_error =>
              /\ app.decodebin = "NULL"
              /\ idle_rebuilds = 0
              /\ ~app.rebuilding
              /\ mainpc \notin RebuildPcs)
  /\ [][/\ (~hist.chainless_error /\ hist'.chainless_error)
            => /\ ~app'.on_ingest
               /\ app'.rebuilding = app.rebuilding
               /\ idle_rebuilds' = idle_rebuilds
        /\ idle_rebuilds' > idle_rebuilds
            => /\ mainpc = "loop" /\ mainpc' = "loop"
               /\ app.decodebin # "NULL"
               /\ hist.chain_rebuilds = 0
               /\ ~app.rebuilding /\ app'.rebuilding
               /\ ~app'.on_ingest
        /\ (mainpc = "loop" /\ mainpc' \in RebuildPcs)
            => /\ idle_rebuilds > 0
               /\ idle_rebuilds' = idle_rebuilds - 1]_tbcvars

\* a chain was built and torn down by its rebuild, and a later ingest error
\* found no chain: nothing is scheduled
C30_Witness ==
  /\ hist.chainless_error
  /\ "main" \in hist.mutated_by
  /\ idle_rebuilds = 0 /\ ~app.rebuilding
  /\ mainpc = "loop"

\* one dispatch of watchdog_cb: the periodic timer was due and is re-armed
WatchdogTick ==
  /\ mainpc = "loop" /\ mainpc' = "loop"
  /\ timers.watchdog = 0 /\ timers'.watchdog = WATCHDOG_PERIOD_MS

\* C31: a watchdog tick that finds the selector on fallback, or no more
\* than watchdog_timeout elapsed since the last ingest buffer, leaves the
\* active pad, on_ingest, the resume window and the last buffer time as
\* they are; no tick switches the selector to ingest, and a tick that
\* changes anything goes from ingest to fallback.
C31_WatchdogTickOnlyOnTimeout ==
  [][WatchdogTick =>
       /\ (\/ ~app.on_ingest
           \/ app.since_buffer_ms = Unset
           \/ app.since_buffer_ms <= WATCHDOG_TIMEOUT_MS)
          => /\ sel'.active = sel.active
             /\ app'.on_ingest = app.on_ingest
             /\ app'.since_resume_ms = app.since_resume_ms
             /\ app'.since_buffer_ms = app.since_buffer_ms
       /\ ~(~app.on_ingest /\ app'.on_ingest)
       /\ app'.since_buffer_ms = app.since_buffer_ms
       /\ (sel' # sel \/ app' # app)
          => /\ app.on_ingest /\ ~app'.on_ingest
             /\ sel'.active = app.fallback_pad]_tbcvars

\* C31 witness: a tick has just run with the selector on ingest and exactly
\* the timeout elapsed since the last buffer, and has left it on ingest.
C31_Witness ==
  /\ timers.watchdog = WATCHDOG_PERIOD_MS
  /\ app.on_ingest /\ sel.active = app.ingest_pad
  /\ app.since_buffer_ms = WATCHDOG_TIMEOUT_MS
  /\ mainpc = "loop"

\* the push in progress carries a fallback frame, or a live frame whose
\* sequence number is the one recorded at the previous push
RepeatExpected ==
  \/ rl'.buffer_to_push.kind # "live"
  \/ rl.current_seq = fb.last_pushed_seq

C33_FallbackPreallocated ==
  /\ [](rl.pc # "unborn" => fb.fallback_frame)
  /\ [][/\ fb.fallback_frame => fb'.fallback_frame
        /\ pushes' = pushes + 1
             => rl'.buffer_to_push.kind \in {"live", "fallback"}]_syncvars

\* C34: the pipelines go to NULL only once the render thread has been
\* joined, every push finds the output pipeline PLAYING, and the join
\* returns as soon as the render thread has exited, also while an
\* on_new_sample call is inside its update.
C34_NullOnlyAfterJoin ==
  /\ []((fbmain = "join" /\ rl.pc = "exited") => ENABLED framebuffer_stop_join)
  /\ [][/\ (fb.output_state # "NULL" /\ fb'.output_state = "NULL")
             => (rl.pc = "exited" /\ fbmain = "joined")
        /\ (fb.input_state # "NULL" /\ fb'.input_state = "NULL")
             => (rl.pc = "exited" /\ fbmain = "joined")
        /\ pushes' = pushes + 1 => fb.output_state = "PLAYING"]_syncvars

\* C34 witness: the join has returned after the last push while
\* on_new_sample is still inside its update; the pipelines are not yet NULL.
C34_Witness ==
  /\ fbmain = "joined" /\ rl.pc = "exited" /\ ns = "locked"
  /\ pushes >= 1 /\ fb.output_state = "PLAYING"

\* C35: frames_in and in_seq move only inside on_new_sample's locked
\* section, by one and together, the slot is rewritten only by a call that
\* takes the lock and ends up owning exactly the new frame, and whenever
\* the lock is free the slot owns at most one frame reference (one exactly
\* when it holds a frame) and in_seq = frames_in.
C35_OneFrameInSlot ==
  /\ [](fb.frame_mutex = "free"
          => /\ fb.in_seq = fb.frames_in
             /\ fb.slot_refs <= 1
             /\ fb.slot_refs = 1 <=> fb.current_frame # 0)
  /\ [][/\ (fb'.frames_in # fb.frames_in \/ fb'.in_seq # fb.in_seq)
             => /\ fb.frame_mutex = "writer"
                /\ fb'.frames_in = fb.frames_in + 1
                /\ fb'.in_seq = fb.in_seq + 1
        /\ fb'.current_frame # fb.current_frame
             => /\ fb.frame_mutex = "free" /\ fb'.frame_mutex = "writer"
                /\ fb'.current_frame # 0 /\ fb'.slot_refs = 1]_syncvars

\* C35 witness: the second call has replaced frame 1 by frame 2 and left.
C35_Witness ==
  /\ fb.frame_mutex = "free" /\ ns = "idle"
  /\ fb.frames_in = 2 /\ fb.in_seq = 2
  /\ fb.current_frame = 2 /\ fb.slot_refs = 1

\* C36: every pad the demux has announced that did not reach a decoder
\* (a non-video pad, a video pad whose decoder is missing or whose link
\* failed) is linked to a fakesink; no demux pad is left without a peer.
C36_UnlinkedPadsDiscarded ==
  \A i \in 1..Len(demux_pads) :
     /\ ~demux_pads[i].handled => demux_pads[i].peer = "fakesink"
     /\ demux_pads[i].peer # "none"

\* C37: the calls of one teardown_ingest_chain set to NULL and remove each
\* element at most once, and only an element that is still in the
\* pipeline: when decodebin aliases the decoder, the decoder, already
\* removed, is not handed to safe_remove_element a second time.
C37_RemovedAtMostOnce ==
  /\ \A i, j \in 1..Len(hist.removed) :
        i # j => hist.removed[i] # hist.removed[j]
  /\ \A i \in 1..Len(hist.removed) : hist.removed[i] # "vtdec:dangling"

\* the sequence numbers pushed so far as non-repeats, in order
FreshSeqs == SelectSeq(rl.seq_log, LAMBDA n : n # 0)

\* C38: no sequence number is pushed as a non-repeat twice, across no-signal
\* fallbacks too (the non-repeat pushes carry increasing sequence numbers
\* that on_new_sample has issued), so the pushes counted as non-repeats
\* never outnumber the frames received:
\* frames_out - frames_repeated <= frames_in.
C38_FreshWithinInput ==
  /\ \A i, j \in 1..Len(FreshSeqs) : i < j => FreshSeqs[i] < FreshSeqs[j]
  /\ \A i \in 1..Len(FreshSeqs) : FreshSeqs[i] \in 1..fb.in_seq
  /\ fb.frames_out - fb.frames_repeated <= Len(FreshSeqs)
  /\ fb.frames_out - fb.frames_repeated <= fb.frames_in

\* C38 witness: frame 1 was pushed once as a non-repeat, the input went
\* silent past the no-signal timeout and the fallback was chosen, then
\* frame 2 arrived and was pushed as a non-repeat; both counted.
C38_Witness ==
  /\ rl.seq_log = << 1, 0, 2 >>
  /\ rl.pc = "wait"
  /\ fb.frames_in = 2 /\ fb.frames_out - fb.frames_repeated = 2

\* C39: when an ingest pad is linked after a rebuild has completed, the
\* resume window is closed (resume_start_time_ms is 0), so the threshold of
\* the new chain is counted from a buffer seen on the new pad.
C39_FreshWindowAfterRebuild ==
  [][(/\ app'.ingest_pad # app.ingest_pad /\ app'.ingest_pad # NoPad
      /\ "main" \in hist.mutated_by
      /\ mainpc = "loop" /\ ~app.rebuilding)
        => app'.since_resume_ms = Unset]_tbcvars

====
